---- MODULE Spec2Model ----
(***************************************************************************)
(* Model of the website grammar checker (src/src/grammarChecker.ts).       *)
(*                                                                         *)
(* A JavaScript string is a sequence of one-character strings, so that the *)
(* regular expressions of the source are computed character by character.  *)
(* Positions are 1-based; a JavaScript index i is position i + 1.          *)
(***************************************************************************)
EXTENDS Integers, Sequences, FiniteSets, TLC

(***************************************************************************)
(* Characters and character classes of the regular expressions.            *)
(***************************************************************************)
UpperSeq == <<"A","B","C","D","E","F","G","H","I","J","K","L","M",
              "N","O","P","Q","R","S","T","U","V","W","X","Y","Z">>

LowerSeq == <<"a","b","c","d","e","f","g","h","i","j","k","l","m",
              "n","o","p","q","r","s","t","u","v","w","x","y","z">>

Range(f) == {f[i] : i \in DOMAIN f}

Upper == Range(UpperSeq)

Lower == Range(LowerSeq)

Letter == Upper \cup Lower

Digit == {"0","1","2","3","4","5","6","7","8","9"}

AlphaNum == Letter \cup Digit

\* \s
Space == {" ", "\n", "\t", "\r"}

\* \w
WordChar == AlphaNum \cup {"_"}

\* the line terminators that '.' does not match and that '$' (flag m) stops at
LineTerminator == {"\n", "\r"}

\* [.!?]
Terminator == {".", "!", "?"}

\* String.prototype.toLowerCase, one character
LowerChar(c) ==
    IF c \in Upper
    THEN LowerSeq[CHOOSE i \in DOMAIN UpperSeq : UpperSeq[i] = c]
    ELSE c

\* String.prototype.toLowerCase
toLowerCase(s) == [i \in DOMAIN s |-> LowerChar(s[i])]

Max(S) == CHOOSE x \in S : \A y \in S : y <= x

Min(S) == CHOOSE x \in S : \A y \in S : x <= y

\* String.prototype.trim
trim(s) ==
    LET ink == {i \in DOMAIN s : s[i] \notin Space}
    IN  IF ink = {} THEN <<>> ELSE SubSeq(s, Min(ink), Max(ink))

\* w occurs in s at position p
OccursAt(s, p, w) ==
    /\ p >= 1
    /\ p + Len(w) - 1 <= Len(s)
    /\ \A k \in 1..Len(w) : s[p + k - 1] = w[k]

\* String.prototype.includes(w, from): from is a JavaScript index
includesFrom(s, w, from) == \E p \in (from + 1)..(Len(s) + 1) : OccursAt(s, p, w)

\* String.prototype.includes(w)
includes(s, w) == includesFrom(s, w, 0)

\* String.prototype.indexOf(w), as a JavaScript index; -1 when absent
indexOf(s, w) ==
    LET ps == {p \in 1..(Len(s) + 1) : OccursAt(s, p, w)}
    IN  IF ps = {} THEN -1 ELSE Min(ps) - 1

\* \b holds between position p - 1 and position p
WordBoundary(s, p) ==
    ((p > 1) /\ (s[p - 1] \in WordChar)) # ((p <= Len(s)) /\ (s[p] \in WordChar))

\* '$' under flag m holds after position p - 1: at the end or before a line terminator
LineEnd(s, p) == (p = Len(s) + 1) \/ (s[p] \in LineTerminator)

\* the case-insensitive occurrence of the lower-case word w at position p
OccursAtI(s, p, w) ==
    /\ p >= 1
    /\ p + Len(w) - 1 <= Len(s)
    /\ \A k \in 1..Len(w) : LowerChar(s[p + k - 1]) = w[k]

\* text.split(/\s+/).filter(word => word.length > 0): the maximal runs of non-space
WordStarts(s) == {i \in DOMAIN s : s[i] \notin Space /\ (i = 1 \/ s[i - 1] \in Space)}

WordEndFrom(s, i) == Min({j \in i..Len(s) : j = Len(s) \/ s[j + 1] \in Space})

RECURSIVE WordsFrom(_, _)
WordsFrom(s, i) ==
    LET later == {j \in WordStarts(s) : j >= i}
    IN  IF later = {} THEN <<>>
        ELSE LET b == Min(later)
                 e == WordEndFrom(s, b)
             IN  <<SubSeq(s, b, e)>> \o WordsFrom(s, e + 1)

Words(s) == WordsFrom(s, 1)

\* [A-Z][a-z]+
IsCapWord(w) ==
    /\ Len(w) >= 2
    /\ w[1] \in Upper
    /\ \A k \in 2..Len(w) : w[k] \in Lower

\* every character of s from position i on is in the class C
AllIn(s, i, C) == \A k \in i..Len(s) : s[k] \in C

\* the position after \s+ matched greedily at position i; 0 when s[i] is no space
AfterSpaces(s, i) ==
    IF i < 1 \/ i > Len(s) \/ s[i] \notin Space THEN 0
    ELSE Min({k \in i..(Len(s) + 1) : k = Len(s) + 1 \/ s[k] \notin Space})

\* (\s+[A-Z]C*)+$ at position i, for a class C that holds \s and [A-Z]:
\* the repetitions after the first are absorbed by C* of the first
SpacedCapRun(s, i, C) ==
    LET p == AfterSpaces(s, i)
    IN  /\ p >= 1
        /\ p <= Len(s)
        /\ s[p] \in Upper
        /\ AllIn(s, p + 1, C)

(***************************************************************************)
(* GrammarChecker.isHeadingOrTitle, one definition per test of the source. *)
(***************************************************************************)
FirstDot(s) ==
    LET dots == {k \in DOMAIN s : s[k] = "."}
    IN  IF dots = {} THEN 0 ELSE Min(dots)

\* /^([A-Z]|[0-9]+)\.(\s+[A-Z][a-zA-Z0-9\s]*)+$/
NumberedHeading(t) ==
    LET d == FirstDot(t)
    IN  /\ d >= 2
        /\ \/ d = 2 /\ t[1] \in Upper
           \/ \A k \in 1..(d - 1) : t[k] \in Digit
        /\ SpacedCapRun(t, d + 1, AlphaNum \cup Space)

RomanNumerals ==
    { <<"I">>, <<"I","I">>, <<"I","I","I">>, <<"I","V">>, <<"V">>, <<"V","I">>,
      <<"V","I","I">>, <<"V","I","I","I">>, <<"I","X">>, <<"X">>, <<"X","I">>,
      <<"X","I","I">> }

\* /^(I|II|III|IV|V|VI|VII|VIII|IX|X|XI|XII)\.(\s+[A-Z][a-zA-Z0-9\s]*)+$/
RomanHeading(t) ==
    LET d == FirstDot(t)
    IN  /\ d >= 2
        /\ SubSeq(t, 1, d - 1) \in RomanNumerals
        /\ SpacedCapRun(t, d + 1, AlphaNum \cup Space)

\* /^([A-Z][a-z0-9]*\s+){1,7}[A-Z][a-z0-9]*$/ && length < 60 && !includes(',')
TitleCasePhrase(t) ==
    /\ Len(t) >= 1
    /\ t[1] \notin Space
    /\ t[Len(t)] \notin Space
    /\ \A k \in DOMAIN t :
          \/ t[k] \in Space
          \/ t[k] \in Upper /\ k \in WordStarts(t)
          \/ t[k] \in Lower \cup Digit /\ k \notin WordStarts(t)
    /\ Cardinality(WordStarts(t)) \in 2..8
    /\ Len(t) < 60
    /\ ~includes(t, <<",">>)

\* /^([A-Z][a-z]+\s+){0,2}of(\s+[A-Z][a-z]+){1,3}$/
OfHeading(t) ==
    LET ws == Words(t)
    IN  /\ Len(t) >= 1
        /\ t[1] \notin Space
        /\ t[Len(t)] \notin Space
        /\ \E k \in 0..2 : \E m \in 1..3 :
              /\ Len(ws) = k + 1 + m
              /\ ws[k + 1] = <<"o","f">>
              /\ \A j \in 1..Len(ws) : j # k + 1 => IsCapWord(ws[j])

\* /^The\s+Right\s+to\s+[A-Z][a-zA-Z\s]*$/
TheRightTo(t) ==
    /\ OccursAt(t, 1, <<"T","h","e">>)
    /\ LET b == AfterSpaces(t, 4)
       IN  /\ OccursAt(t, b, <<"R","i","g","h","t">>)
           /\ LET c == AfterSpaces(t, b + 5)
              IN  /\ OccursAt(t, c, <<"t","o">>)
                  /\ SpacedCapRun(t, c + 2, Letter \cup Space)

\* /^How\s+(to|We)\s+[A-Z][a-zA-Z\s]*$/
HowToWe(t) ==
    /\ OccursAt(t, 1, <<"H","o","w">>)
    /\ LET b == AfterSpaces(t, 4)
       IN  /\ OccursAt(t, b, <<"t","o">>) \/ OccursAt(t, b, <<"W","e">>)
           /\ SpacedCapRun(t, b + 2, Letter \cup Space)

\* /^[A-Z][a-z]+(\s+[A-Z][a-z]+)*:.*\([""][^)]+[""]\)$/
TitleWithOrganisation(t) ==
    LET n == Len(t)
    IN  \E c \in 1..n : \E q \in 1..n :
          /\ t[c] = ":"
          /\ c >= 2
          /\ t[1] \notin Space
          /\ t[c - 1] \notin Space
          /\ \A k \in 1..(c - 1) : t[k] \in Letter \cup Space
          /\ LET ws == Words(SubSeq(t, 1, c - 1))
             IN  \A j \in 1..Len(ws) : IsCapWord(ws[j])
          /\ q > c
          /\ \A k \in (c + 1)..(q - 1) : t[k] \notin LineTerminator
          /\ t[q] = "("
          /\ q + 4 <= n
          /\ t[q + 1] = "\""
          /\ \A k \in (q + 2)..(n - 2) : t[k] # ")"
          /\ t[n - 1] = "\""
          /\ t[n] = ")"

commonTitles ==
    { <<"i","n","t","r","o","d","u","c","t","i","o","n">>,
      <<"p","u","r","p","o","s","e">>,
      <<"s","c","o","p","e">>,
      <<"d","e","f","i","n","i","t","i","o","n","s">>,
      <<"p","r","i","v","a","c","y"," ","p","o","l","i","c","y">>,
      <<"t","e","r","m","s"," ","o","f"," ","s","e","r","v","i","c","e">>,
      <<"d","i","s","c","l","a","i","m","e","r">>,
      <<"c","o","l","l","e","c","t","i","o","n"," ","o","f"," ","i","n","f","o","r","m","a","t","i","o","n">>,
      <<"u","s","e"," ","o","f"," ","i","n","f","o","r","m","a","t","i","o","n">>,
      <<"i","n","f","o","r","m","a","t","i","o","n"," ","s","h","a","r","i","n","g">>,
      <<"d","a","t","a"," ","p","r","o","t","e","c","t","i","o","n">>,
      <<"s","e","c","u","r","i","t","y"," ","m","e","a","s","u","r","e","s">>,
      <<"y","o","u","r"," ","r","i","g","h","t","s">>,
      <<"c","o","n","t","a","c","t"," ","u","s">>,
      <<"e","f","f","e","c","t","i","v","e"," ","d","a","t","e">> }

isHeadingOrTitle(text) ==
    LET trimmedText == trim(text)
    IN  IF trimmedText = <<>> THEN FALSE
        ELSE \/ NumberedHeading(trimmedText)
             \/ RomanHeading(trimmedText)
             \/ TitleCasePhrase(trimmedText)
             \/ OfHeading(trimmedText)
             \/ TheRightTo(trimmedText)
             \/ HowToWe(trimmedText)
             \/ TitleWithOrganisation(trimmedText)
             \/ toLowerCase(trimmedText) \in commonTitles

(***************************************************************************)
(* GrammarChecker.shouldSkipText                                           *)
(***************************************************************************)
\* /^[A-Z][A-Za-z\s]{3,}:$/
ColonHeading(t) ==
    /\ Len(t) >= 5
    /\ t[1] \in Upper
    /\ t[Len(t)] = ":"
    /\ \A k \in 2..(Len(t) - 1) : t[k] \in Letter \cup Space

ListIntroWords ==
    { <<"i","n","c","l","u","d","e">>,
      <<"a","r","e">>,
      <<"f","o","l","l","o","w","i","n","g">>,
      <<"i","n","c","l","u","d","e"," ","b","u","t"," ","a","r","e"," ","n","o","t"," ","l","i","m","i","t","e","d"," ","t","o">> }

\* /^[A-Za-z\s]+(include|are|following|include but are not limited to):$/
ListIntroduction(t) ==
    /\ Len(t) >= 1
    /\ t[Len(t)] = ":"
    /\ \E w \in ListIntroWords :
          LET p == Len(t) - Len(w)
          IN  /\ p >= 2
              /\ OccursAt(t, p, w)
              /\ \A k \in 1..(p - 1) : t[k] \in Letter \cup Space

\* the one character U+2022, the bullet of the list-item test
Bullet == "u2022"

\* /^(\d+\.|\*|\-|\u2022)\s+[A-Za-z]/
BulletPrefix(t) ==
    LET d == FirstDot(t)
        afterMark ==
            IF Len(t) >= 1 /\ t[1] \in {"*", "-", Bullet} THEN 2
            ELSE IF d >= 2 /\ (\A k \in 1..(d - 1) : t[k] \in Digit) THEN d + 1
            ELSE 0
        p == AfterSpaces(t, afterMark)
    IN  /\ afterMark >= 1
        /\ p >= 1
        /\ p <= Len(t)
        /\ t[p] \in Letter

\* BulletPrefix && !trimmedText.includes('.', 2)
ListItem(t) == BulletPrefix(t) /\ ~includesFrom(t, <<".">>, 2)

\* the four uiPatterns, each /^(...)$/i, in lower case
uiPhrases ==
    { <<"h","o","m","e">>,
      <<"a","b","o","u","t">>,
      <<"c","o","n","t","a","c","t">>,
      <<"l","o","g","i","n">>,
      <<"s","i","g","n","u","p">>,
      <<"v","i","d","e","o","s">>,
      <<"m","e","n","u">>,
      <<"a","c","c","e","p","t">>,
      <<"d","e","c","l","i","n","e">>,
      <<"s","u","b","m","i","t">>,
      <<"c","a","n","c","e","l">>,
      <<"n","e","x","t">>,
      <<"p","r","e","v","i","o","u","s">>,
      <<"t","e","r","m","s"," ","a","n","d"," ","c","o","n","d","i","t","i","o","n","s">>,
      <<"p","r","i","v","a","c","y"," ","p","o","l","i","c","y">>,
      <<"s","k","i","p"," ","t","o"," ","c","o","n","t","e","n","t">>,
      <<"l","o","g"," ","i","n">>,
      <<"s","i","g","n"," ","u","p">> }

uiPatterns(t) == toLowerCase(t) \in uiPhrases

ConsentWords ==
    { <<"c","o","o","k","i","e">>,
      <<"c","o","n","s","e","n","t">>,
      <<"a","c","c","e","p","t">>,
      <<"d","e","c","l","i","n","e">>,
      <<"p","r","i","v","a","c","y">> }

UsageWords ==
    { <<"w","e","b","s","i","t","e">>,
      <<"e","x","p","e","r","i","e","n","c","e">>,
      <<"b","r","o","w","s","e">>,
      <<"u","s","e","s">> }

\* /cookie|consent|accept|decline|privacy/i && /website|experience|browse|uses/i
CookieBanner(t) ==
    /\ \E w \in ConsentWords : includes(toLowerCase(t), w)
    /\ \E w \in UsageWords : includes(toLowerCase(t), w)

\* the lower-case word a at position 1, \s+, then the lower-case word b
TwoWordPrefixI(t, a, b) ==
    /\ OccursAtI(t, 1, a)
    /\ OccursAtI(t, AfterSpaces(t, Len(a) + 1), b)

\* /^Version\s+Date:|^Last\s+Updated:|^Effective\s+Date:/i
MetadataLine(t) ==
    \/ TwoWordPrefixI(t, <<"v","e","r","s","i","o","n">>, <<"d","a","t","e",":">>)
    \/ TwoWordPrefixI(t, <<"l","a","s","t">>, <<"u","p","d","a","t","e","d",":">>)
    \/ TwoWordPrefixI(t, <<"e","f","f","e","c","t","i","v","e">>, <<"d","a","t","e",":">>)

shouldSkipText(text) ==
    LET trimmedText == trim(text)
    IN  IF trimmedText = <<>> THEN TRUE
        ELSE \/ isHeadingOrTitle(trimmedText)
             \/ ColonHeading(trimmedText)
             \/ ListIntroduction(trimmedText)
             \/ ListItem(trimmedText)
             \/ uiPatterns(trimmedText)
             \/ CookieBanner(trimmedText)
             \/ MetadataLine(trimmedText)

(***************************************************************************)
(* GrammarChecker.isPrepositionInHeading                                   *)
(***************************************************************************)
HeadingPrepositions ==
    { <<"o","f">>,
      <<"t","o">>,
      <<"f","o","r">>,
      <<"w","i","t","h">>,
      <<"b","y">>,
      <<"f","r","o","m">>,
      <<"i","n">>,
      <<"o","n">>,
      <<"a","t">>,
      <<"a","b","o","u","t">> }

\* [A-Z][a-z]+ as a prefix of w
CapPrefix(w) == Len(w) >= 2 /\ w[1] \in Upper /\ w[2] \in Lower

\* /^([A-Z][a-z]+\s+){0,2}(of|to|for|with|by|from|in|on|at|about)(\s+[A-Z][a-z]+){1,3}$/
PrepositionHeading(t) ==
    LET ws == Words(t)
    IN  /\ Len(t) >= 1
        /\ t[1] \notin Space
        /\ t[Len(t)] \notin Space
        /\ \E k \in 0..2 : \E m \in 1..3 :
              /\ Len(ws) = k + 1 + m
              /\ ws[k + 1] \in HeadingPrepositions
              /\ \A j \in 1..Len(ws) : j # k + 1 => IsCapWord(ws[j])

\* /^The\s+[A-Z][a-z]+\s+(of|to|for|with|by|from|in|on|at|about)\s+[A-Z][a-z]+/
TheXPrepositionY(t) ==
    LET ws == Words(t)
    IN  /\ Len(ws) >= 4
        /\ t[1] \notin Space
        /\ ws[1] = <<"T","h","e">>
        /\ IsCapWord(ws[2])
        /\ ws[3] \in HeadingPrepositions
        /\ CapPrefix(ws[4])

\* /^How\s+to\s+[A-Z][a-z]+/
HowToX(t) ==
    LET ws == Words(t)
    IN  /\ Len(ws) >= 3
        /\ t[1] \notin Space
        /\ ws[1] = <<"H","o","w">>
        /\ ws[2] = <<"t","o">>
        /\ CapPrefix(ws[3])

isPrepositionInHeading(text) ==
    LET t == trim(text)
    IN  PrepositionHeading(t) \/ TheXPrepositionY(t) \/ HowToX(t)

(***************************************************************************)
(* GrammarChecker.isContentSentence                                        *)
(***************************************************************************)
SubjectWords ==
    { <<"t","h","e">>,
      <<"a">>,
      <<"a","n">>,
      <<"t","h","i","s">>,
      <<"t","h","a","t">>,
      <<"t","h","e","s","e">>,
      <<"t","h","o","s","e">>,
      <<"w","e">>,
      <<"y","o","u">>,
      <<"t","h","e","y">>,
      <<"h","e">>,
      <<"s","h","e">>,
      <<"i","t">>,
      <<"i">> }

AuxiliaryWords ==
    { <<"a","m">>,
      <<"i","s">>,
      <<"a","r","e">>,
      <<"w","a","s">>,
      <<"w","e","r","e">>,
      <<"h","a","v","e">>,
      <<"h","a","s">>,
      <<"h","a","d">>,
      <<"d","o">>,
      <<"d","o","e","s">>,
      <<"d","i","d">>,
      <<"w","i","l","l">>,
      <<"s","h","a","l","l">>,
      <<"m","a","y">>,
      <<"m","i","g","h","t">>,
      <<"c","a","n">>,
      <<"c","o","u","l","d">>,
      <<"w","o","u","l","d">>,
      <<"s","h","o","u","l","d">>,
      <<"m","u","s","t">> }

\* \b(w)\b at position p, case-insensitive, for a lower-case w
WholeWordAtI(s, p, w) ==
    /\ OccursAtI(s, p, w)
    /\ WordBoundary(s, p)
    /\ WordBoundary(s, p + Len(w))

\* '.*' matches the characters from position a to position b - 1
DotStar(s, a, b) == a <= b /\ \A k \in a..(b - 1) : s[k] \notin LineTerminator

\* /\b(the|a|...|I)\b.*\b(am|is|...|must)\b/i
hasSubjectVerb(s) ==
    LET subjectEnds == {e \in 1..(Len(s) + 1) :
                          \E w \in SubjectWords : WholeWordAtI(s, e - Len(w), w)}
        auxStarts == {p \in DOMAIN s : \E w \in AuxiliaryWords : WholeWordAtI(s, p, w)}
    IN  \E a \in subjectEnds : \E b \in auxStarts : DotStar(s, a, b)

codeWords ==
    { <<"w","i","d","t","h">>,
      <<"h","e","i","g","h","t">>,
      <<"m","a","r","g","i","n">>,
      <<"p","a","d","d","i","n","g">>,
      <<"c","o","l","o","r">>,
      <<"f","o","n","t">>,
      <<"g","r","i","d">>,
      <<"f","l","e","x">>,
      <<"s","t","y","l","e">>,
      <<"c","l","a","s","s">>,
      <<"d","i","s","p","l","a","y">>,
      <<"p","o","s","i","t","i","o","n">> }

\* the one character U+0060, the backtick
Backtick == "u0060"

\* [{}\[\]()=<>:;$&#%~\u0060^\\|]
SpecialChars ==
    {"{", "}", "[", "]", "(", ")", "=", "<", ">", ":", ";", "$", "&", "#", "%",
     "~", Backtick, "^", "\\", "|"}

\* /:[^.]?$/
EndsInColon(t) ==
    \/ Len(t) >= 1 /\ t[Len(t)] = ":"
    \/ Len(t) >= 2 /\ t[Len(t) - 1] = ":" /\ t[Len(t)] # "."

MinContentLength == 15

MinContentWords == 4

MinPlainWords == 7

\* specialCharDensity < 0.05 is specialChars * DensityDivisor < text.length
DensityDivisor == 20

\* isContentSentence with 'words.length > 7' in place of 'words.length >= 7'
isContentSentenceMoreThanSeven(text) ==
    LET words == Words(text)
        hasCodeWords == \E w \in codeWords : includes(toLowerCase(text), w)
        specialChars == Cardinality({k \in DOMAIN text : text[k] \in SpecialChars})
    IN  IF Len(text) < MinContentLength THEN FALSE
        ELSE IF Len(words) < MinContentWords THEN FALSE
        ELSE IF EndsInColon(trim(text)) THEN FALSE
        ELSE \/ hasSubjectVerb(text)
             \/ /\ Len(words) > MinPlainWords
                /\ ~hasCodeWords
                /\ specialChars * DensityDivisor < Len(text)

isContentSentence(text) ==
    LET words == Words(text)
        hasCodeWords == \E w \in codeWords : includes(toLowerCase(text), w)
        specialChars == Cardinality({k \in DOMAIN text : text[k] \in SpecialChars})
    IN  IF Len(text) < MinContentLength THEN FALSE
        ELSE IF Len(words) < MinContentWords THEN FALSE
        ELSE IF EndsInColon(trim(text)) THEN FALSE
        ELSE \/ hasSubjectVerb(text)
             \/ /\ Len(words) >= MinPlainWords
                /\ ~hasCodeWords
                /\ specialChars * DensityDivisor < Len(text)

(***************************************************************************)
(* The table of patterns of GrammarChecker.checkRegexPatterns.  A match is *)
(* a record [index, last]: the positions of its first and last character.  *)
(* NoMatch stands for the null that exec returns.                          *)
(***************************************************************************)
NoMatch == [index |-> 0, last |-> 0]

\* the last position of the run of [^.!?] that starts at position a (a - 1 when empty)
RunEnd(s, a) == Min({k \in a..(Len(s) + 1) : k = Len(s) + 1 \/ s[k] \in Terminator}) - 1

\* '[^.!?]*$' (flags g, m) from position a: the last position of the greedy match,
\* the largest line end inside the run; -1 when the run holds no line end
TailEnd(s, a) ==
    LET ends == {q \in (a - 1)..RunEnd(s, a) : LineEnd(s, q + 1)}
    IN  IF ends = {} THEN -1 ELSE Max(ends)

NotePhrases ==
    { <<"p","l","e","a","s","e"," ","n","o","t","e">>,
      <<"i","t"," ","i","s"," ","i","m","p","o","r","t","a","n","t"," ","t","o"," ","n","o","t","e">> }

NegationPhrases ==
    { <<"d","o"," ","n","o","t">>,
      <<"d","o","e","s"," ","n","o","t">>,
      <<"w","i","l","l"," ","n","o","t">>,
      <<"c","a","n","n","o","t">> }

ResponseVerbs ==
    { <<"r","e","c","o","g","n","i","z","e">>,
      <<"r","e","s","p","o","n","d">>,
      <<"r","e","p","l","y">>,
      <<"a","c","k","n","o","w","l","e","d","g","e">> }

\* the positions after an occurrence at or after position a, on the same line, of
\* '\b(w)\b' for a w of the set W, case-insensitive
WholeWordEndsAfter(s, a, W) ==
    {e \in a..(Len(s) + 1) :
        \E w \in W : /\ e - Len(w) >= a
                     /\ WholeWordAtI(s, e - Len(w), w)
                     /\ DotStar(s, a, e - Len(w))}

\* /\b(please note|it is important to note).*\b(do not|does not|will not|cannot)\b.*
\*  \b(recognize|respond|reply|acknowledge)\b[^.!?]*$/gim, attempted at position i:
\* both '.*' are greedy, so the last negation and then the last verb that let the
\* rest match are taken
TransitiveVerbAt(s, i) ==
    LET noteEnds == {i + Len(w) : w \in {x \in NotePhrases : OccursAtI(s, i, x)}}
        verbEnds(j) == {k \in WholeWordEndsAfter(s, j, ResponseVerbs) : TailEnd(s, k) >= 0}
        negEnds(a) == {j \in WholeWordEndsAfter(s, a, NegationPhrases) : verbEnds(j) # {}}
    IN  IF ~WordBoundary(s, i) \/ noteEnds = {} THEN NoMatch
        ELSE LET a == Max(noteEnds)
             IN  IF negEnds(a) = {} THEN NoMatch
                 ELSE [index |-> i,
                       last |-> TailEnd(s, Max(verbEnds(Max(negEnds(a)))))]

HangingPrepositions ==
    { <<"t","o">>,
      <<"f","o","r">>,
      <<"w","i","t","h">>,
      <<"b","y">>,
      <<"f","r","o","m">>,
      <<"i","n">>,
      <<"o","n">>,
      <<"a","t">>,
      <<"a","b","o","u","t">>,
      <<"u","p","o","n">> }

\* the least number of characters of '[^.!?]{10,}'
MinHangingRun == 10

\* /\b[A-Z][^.!?]{10,}(to|for|with|by|from|in|on|at|about|upon)[^.!?]*$/gm, attempted
\* at position i: the run after the capital reaches the line end TailEnd, and some
\* preposition lies between the tenth character of the run and that line end
HangingPrepositionAt(s, i) ==
    LET last == TailEnd(s, i + 1)
    IN  IF /\ s[i] \in Upper
           /\ WordBoundary(s, i)
           /\ \E w \in HangingPrepositions :
                 \E p \in (i + 1 + MinHangingRun)..(last - Len(w) + 1) : OccursAt(s, p, w)
        THEN [index |-> i, last |-> last]
        ELSE NoMatch

BrowserInitiated == <<"b","r","o","w","s","e","r","-","i","n","i","t","i","a","t","e","d">>

\* the regex with the word optional, /[^.!?]*(\bbrowser-initiated\b)?[^.!?]*$/gm
BrowserInitiatedAtOptional(s, i) ==
    IF TailEnd(s, i) >= i THEN [index |-> i, last |-> TailEnd(s, i)] ELSE NoMatch

\* /[^.!?]*\bbrowser-initiated\b[^.!?]*$/gm, attempted at position i
BrowserInitiatedAt(s, i) ==
    LET occ == {p \in i..(RunEnd(s, i) + 1) :
                  /\ OccursAt(s, p, BrowserInitiated)
                  /\ WordBoundary(s, p)
                  /\ WordBoundary(s, p + Len(BrowserInitiated))
                  /\ TailEnd(s, p + Len(BrowserInitiated)) >= 0}
    IN  IF occ = {} THEN NoMatch
        ELSE [index |-> i, last |-> TailEnd(s, Max(occ) + Len(BrowserInitiated))]

patterns ==
    << [ruleId |-> "INCOMPLETE_TRANSITIVE_VERB",
        message |-> "Incomplete sentence missing object after transitive verb",
        suggestion |-> "Complete the sentence by specifying what is recognized or responded to"],
       [ruleId |-> "HANGING_PREPOSITION",
        message |-> "Sentence ends with a preposition",
        suggestion |-> "Complete the prepositional phrase with an object"],
       [ruleId |-> "INCOMPLETE_BROWSER_INITIATED",
        message |-> "Incomplete sentence with \"browser-initiated\"",
        suggestion |-> "Complete the sentence with what happens with browser-initiated requests/actions"] >>

\* the regex of pattern pattern attempted at position i
MatchAt(pattern, s, i) ==
    CASE pattern.ruleId = "INCOMPLETE_TRANSITIVE_VERB" -> TransitiveVerbAt(s, i)
      [] pattern.ruleId = "HANGING_PREPOSITION" -> HangingPrepositionAt(s, i)
      [] pattern.ruleId = "INCOMPLETE_BROWSER_INITIATED" -> BrowserInitiatedAt(s, i)

\* pattern.regex.exec(text) with regex.lastIndex = lastIndex: the leftmost match
exec(pattern, s, lastIndex) ==
    LET starts == {i \in (lastIndex + 1)..Len(s) : MatchAt(pattern, s, i) # NoMatch}
    IN  IF starts = {} THEN NoMatch ELSE MatchAt(pattern, s, Min(starts))

\* the matches that the loop 'while ((match = pattern.regex.exec(text)) !== null)'
\* sees: after a match, lastIndex is the index after its last character
RECURSIVE execAll(_, _, _)
execAll(pattern, s, lastIndex) ==
    LET match == exec(pattern, s, lastIndex)
    IN  IF match = NoMatch THEN <<>>
        ELSE <<match>> \o execAll(pattern, s, match.last)

(***************************************************************************)
(* nlp(text).sentences().out('array') of the library compromise, as called *)
(* by detectIncompleteWithCompromise: the text is cut after every run of   *)
(* [.!?] followed by a space and around every run of line breaks; a piece  *)
(* without letter or digit joins its neighbour, a piece that is no         *)
(* sentence (no letter, an initial, an ellipsis) joins the piece after it; *)
(* each sentence is returned trimmed.  The library's table of              *)
(* abbreviations and its merging of quotations and parentheses are left    *)
(* out: the pages below contain none.                                      *)
(***************************************************************************)
SplitEnds(s) ==
    {i \in DOMAIN s :
        \/ i = Len(s)
        \/ s[i] \in Space \ LineTerminator /\ i > 1 /\ s[i - 1] \in Terminator
        \/ (s[i] \in LineTerminator) # (s[i + 1] \in LineTerminator)}

RECURSIVE basicSplit(_, _)
basicSplit(s, i) ==
    IF i > Len(s) THEN <<>>
    ELSE LET e == Min({k \in SplitEnds(s) : k >= i})
         IN  <<SubSeq(s, i, e)>> \o basicSplit(s, e + 1)

RECURSIVE simpleMerge(_, _)
simpleMerge(splits, chunks) ==
    IF splits = <<>> THEN chunks
    ELSE LET str == Head(splits)
         IN  IF \A k \in DOMAIN str : str[k] \notin AlphaNum
             THEN IF chunks # <<>>
                  THEN simpleMerge(Tail(splits),
                                   [chunks EXCEPT ![Len(chunks)] = @ \o str])
                  ELSE IF Len(splits) >= 2
                  THEN simpleMerge(<<str \o splits[2]>> \o Tail(Tail(splits)), chunks)
                  ELSE simpleMerge(Tail(splits), Append(chunks, str))
             ELSE simpleMerge(Tail(splits), Append(chunks, str))

\* the last position of str that holds no blank
LastNonBlank(str) ==
    LET ink == {k \in DOMAIN str : str[k] # " "}
    IN  IF ink = {} THEN 0 ELSE Max(ink)

isSentence(str) ==
    LET a == LastNonBlank(str)
        b == IF a >= 1 /\ str[a] = "." THEN a - 1 ELSE a
    IN  /\ \E k \in DOMAIN str : str[k] \in Letter
        \* /[ .][A-Z]\.? *$/i
        /\ ~(b >= 2 /\ str[b] \in Letter /\ str[b - 1] \in {" ", "."})
        \* str.length === 3 && /^[A-Z]\. $/
        /\ ~(Len(str) = 3 /\ str[1] \in Upper /\ str[2] = "." /\ str[3] = " ")
        \* /\.{2,} *$/
        /\ ~(a >= 2 /\ str[a] = "." /\ str[a - 1] = ".")

RECURSIVE smartMerge(_, _)
smartMerge(chunks, sentences) ==
    IF chunks = <<>> THEN sentences
    ELSE IF Len(chunks) >= 2 /\ ~isSentence(Head(chunks))
    THEN smartMerge(<<chunks[1] \o chunks[2]>> \o Tail(Tail(chunks)), sentences)
    ELSE smartMerge(Tail(chunks), Append(sentences, Head(chunks)))

sentences(text) ==
    LET all == smartMerge(simpleMerge(basicSplit(text, 1), <<>>), <<>>)
    IN  IF trim(text) = <<>> THEN <<>>
        ELSE SelectSeq([k \in DOMAIN all |-> trim(all[k])], LAMBDA str : str # <<>>)

(***************************************************************************)
(* The pages that are analysed.  extractText joins the trimmed text of the *)
(* page's elements with "\n\n"; a page is given by its url and by the text *)
(* that extractText returns for it.                                        *)
(***************************************************************************)
ParagraphBreak == <<"\n", "\n">>

ContactUs == <<"C","o","n","t","a","c","t"," ","U","s">>

Scenario1Body == <<"W","e"," ","a","p","p","r","e","c","i","a","t","e"," ","y","o","u","r"," ","b","u","s","i","n","e","s","s","."," ","P","l","e","a","s","e"," ","v","i","s","i","t"," ","o","u","r"," ","s","i","t","e"," ","t","o">>

CompleteSentence == <<"T","h","i","s"," ","i","s"," ","a"," ","c","o","m","p","l","e","t","e"," ","s","e","n","t","e","n","c","e",".">>

NumberedIntroduction == <<"1","."," ","I","n","t","r","o","d","u","c","t","i","o","n">>

PolicyExplains == <<"T","h","i","s"," ","p","o","l","i","c","y"," ","e","x","p","l","a","i","n","s"," ","h","o","w"," ","w","e"," ","c","o","l","l","e","c","t"," ","d","a","t","a">>

InformationSharingPolicy == <<"I","n","f","o","r","m","a","t","i","o","n"," ","S","h","a","r","i","n","g"," ","P","o","l","i","c","y">>

PleaseNote == <<"P","l","e","a","s","e"," ","n","o","t","e"," ","t","h","a","t"," ","w","e"," ","d","o"," ","n","o","t"," ","r","e","s","p","o","n","d"," ","t","o"," ","b","r","o","w","s","e","r","-","i","n","i","t","i","a","t","e","d">>

Scenario1Text == ContactUs \o ParagraphBreak \o Scenario1Body

Scenario2Text == CompleteSentence

Scenario3Text == NumberedIntroduction \o ParagraphBreak \o PolicyExplains

Pages ==
    { [url |-> "scenario1", text |-> Scenario1Text],
      [url |-> "scenario2", text |-> Scenario2Text],
      [url |-> "scenario3", text |-> Scenario3Text],
      [url |-> "sharing", text |-> InformationSharingPolicy],
      [url |-> "note", text |-> PleaseNote],
      [url |-> "empty", text |-> <<>>] }

(***************************************************************************)
(* GrammarChecker.detectIncompleteWithCompromise and checkRegexPatterns.   *)
(* Both read and extend this.processedFragments: they take the set and     *)
(* return the errors together with the extended set.                       *)
(***************************************************************************)
\* the least length of a sentence that is examined
MinSentenceLength == 10

\* sentenceText.trim().match(/[.!?]$/)
EndsInTerminator(t) == Len(t) >= 1 /\ t[Len(t)] \in Terminator

MissingEndPunctuation(text, sentenceText) ==
    [message |-> "Sentence does not end with proper punctuation",
     context |-> trim(sentenceText),
     suggestions |-> <<"Add appropriate ending punctuation (period, exclamation mark, or question mark)">>,
     ruleId |-> "MISSING_END_PUNCTUATION",
     position |-> [offset |-> indexOf(text, sentenceText), length |-> Len(sentenceText)]]

\* the body of the loop over the sentences, for a sentence that is not yet in
\* processedFragments: whether the sentence is examined at all (it is recorded in
\* processedFragments exactly then) and the errors that are pushed for it
SentenceOutcome(text, sentenceText) ==
    [fragment |-> trim(sentenceText),
     examined |-> ~(trim(sentenceText) = <<>> \/ Len(trim(sentenceText)) < MinSentenceLength),
     errors |->
        IF trim(sentenceText) = <<>> \/ Len(trim(sentenceText)) < MinSentenceLength THEN <<>>
        ELSE IF shouldSkipText(sentenceText) THEN <<>>
        ELSE IF isHeadingOrTitle(trim(sentenceText)) THEN <<>>
        ELSE IF ~EndsInTerminator(trim(sentenceText)) /\ isContentSentence(sentenceText)
        THEN <<MissingEndPunctuation(text, sentenceText)>>
        ELSE <<>>]

\* the outcomes of the sentences of text, in the order of the loop
SentenceOutcomes(text) ==
    LET all == sentences(text)
    IN  [k \in DOMAIN all |-> SentenceOutcome(text, all[k])]

\* the error of a pattern with its context in lower case
PatternErrorLowerCase(pattern, context, match) ==
    [message |-> pattern.message,
     context |-> toLowerCase(context),
     suggestions |-> <<pattern.suggestion, "Add proper punctuation">>,
     ruleId |-> pattern.ruleId,
     position |-> [offset |-> match.index - 1, length |-> match.last - match.index + 1]]

PatternError(pattern, context, match) ==
    [message |-> pattern.message,
     context |-> context,
     suggestions |-> <<pattern.suggestion, "Add proper punctuation">>,
     ruleId |-> pattern.ruleId,
     position |-> [offset |-> match.index - 1, length |-> match.last - match.index + 1]]

\* the body of the loop over the matches without 'if (this.isHeadingOrTitle(context)) continue'
MatchOutcomeWithoutHeadingTest(pattern, text, match) ==
    LET context == trim(SubSeq(text, match.index, match.last))
    IN  [fragment |-> context,
         examined |-> TRUE,
         errors |->
            IF pattern.ruleId = "HANGING_PREPOSITION" /\ isPrepositionInHeading(context)
            THEN <<>>
            ELSE <<PatternError(pattern, context, match)>>]

\* the body of the loop over the matches of a pattern, for a match whose trimmed
\* text is not yet in processedFragments
MatchOutcome(pattern, text, match) ==
    LET context == trim(SubSeq(text, match.index, match.last))
    IN  [fragment |-> context,
         examined |-> TRUE,
         errors |->
            IF isHeadingOrTitle(context) THEN <<>>
            ELSE IF pattern.ruleId = "HANGING_PREPOSITION" /\ isPrepositionInHeading(context)
            THEN <<>>
            ELSE <<PatternError(pattern, context, match)>>]

\* the outcomes of the matches of text: pattern after pattern, match after match
RECURSIVE MatchOutcomesFrom(_, _)
MatchOutcomesFrom(k, text) ==
    IF k > Len(patterns) THEN <<>>
    ELSE LET all == execAll(patterns[k], text, 0)
         IN  [j \in DOMAIN all |-> MatchOutcome(patterns[k], text, all[j])]
                \o MatchOutcomesFrom(k + 1, text)

MatchOutcomes(text) == MatchOutcomesFrom(1, text)

\* the outcomes for the texts of the pages, computed once
PageTexts == {page.text : page \in Pages}

SentenceOutcomesOf == [text \in PageTexts |-> SentenceOutcomes(text)]

MatchOutcomesOf == [text \in PageTexts |-> MatchOutcomes(text)]

\* the pages as checkPage meets them: the url, the text that extractText returns,
\* and what the two loops derive from that text alone, whatever processedFragments
\* holds: the sentences of compromise and the matches of the patterns, each with
\* the outcome of the loop body
AnalysedPages ==
    {[url |-> page.url,
      text |-> page.text,
      sentences |-> SentenceOutcomesOf[page.text],
      matches |-> MatchOutcomesOf[page.text]] : page \in Pages}

(***************************************************************************)
(* The state: the GrammarChecker objects that exist, the CheckResults that *)
(* checkPage has returned on each of them in the order of the calls, the   *)
(* merged list of errors that each call handed to deduplicateErrors, one   *)
(* call of deduplicateErrors on a list of errors of its own, and one run   *)
(* of a command line or of a Reporter with what it has written.            *)
(***************************************************************************)
VARIABLES checkers, returned, merged, dedup, invocation

\* one iteration without 'if (this.processedFragments.has(fragment)) continue'
FragmentStepWithoutHas(outcome, acc) ==
    IF ~outcome.examined THEN acc
    ELSE [errors |-> acc.errors \o outcome.errors,
          processedFragments |-> acc.processedFragments \cup {outcome.fragment}]

\* one iteration with 'this.processedFragments.add(fragment)' moved to the place
\* where the error is pushed
FragmentStepAddsReported(outcome, acc) ==
    IF ~outcome.examined THEN acc
    ELSE IF outcome.fragment \in acc.processedFragments THEN acc
    ELSE IF outcome.errors = <<>> THEN acc
    ELSE [errors |-> acc.errors \o outcome.errors,
          processedFragments |-> acc.processedFragments \cup {outcome.fragment}]

\* one iteration of either loop: 'if (this.processedFragments.has(fragment)) continue;
\* this.processedFragments.add(fragment);' and then the body
FragmentStep(outcome, acc) ==
    IF ~outcome.examined THEN acc
    ELSE IF outcome.fragment \in acc.processedFragments THEN acc
    ELSE [errors |-> acc.errors \o outcome.errors,
          processedFragments |-> acc.processedFragments \cup {outcome.fragment}]

RECURSIVE FragmentLoop(_, _)
FragmentLoop(todo, acc) ==
    IF todo = <<>> THEN acc
    ELSE FragmentLoop(Tail(todo), FragmentStep(Head(todo), acc))

\* detectIncompleteWithCompromise that goes on after MISSING_END_PUNCTUATION: the
\* errors of every pattern that matches the whole sentence are pushed as well
detectIncompleteWithoutStop(options, page, processedFragments) ==
    LET matching(k) == SelectSeq(page.matches,
                                 LAMBDA match : match.fragment = page.sentences[k].fragment)
        outcomes == [k \in DOMAIN page.sentences |->
                       IF page.sentences[k].errors = <<>> THEN page.sentences[k]
                       ELSE [page.sentences[k] EXCEPT
                               !.errors = @ \o FragmentLoop(matching(k),
                                                [errors |-> <<>>,
                                                 processedFragments |-> {}]).errors]]
    IN  IF ~options.detectIncomplete
        THEN [errors |-> <<>>, processedFragments |-> processedFragments]
        ELSE FragmentLoop(outcomes,
                          [errors |-> <<>>, processedFragments |-> processedFragments])

\* detectIncompleteWithCompromise with a second branch: a sentence that gets no
\* MISSING_END_PUNCTUATION is tried against the patterns, and the first pattern
\* that matches the whole sentence is reported
detectIncompleteWithPatternBranch(options, page, processedFragments) ==
    LET matching(k) == {j \in DOMAIN page.matches :
                          /\ page.matches[j].fragment = page.sentences[k].fragment
                          /\ page.matches[j].errors # <<>>}
        outcomes == [k \in DOMAIN page.sentences |->
                       IF page.sentences[k].errors = <<>> /\ matching(k) # {}
                       THEN [page.sentences[k] EXCEPT
                               !.errors = page.matches[Min(matching(k))].errors]
                       ELSE page.sentences[k]]
    IN  IF ~options.detectIncomplete
        THEN [errors |-> <<>>, processedFragments |-> processedFragments]
        ELSE FragmentLoop(outcomes,
                          [errors |-> <<>>, processedFragments |-> processedFragments])

detectIncompleteWithCompromise(options, page, processedFragments) ==
    IF ~options.detectIncomplete
    THEN [errors |-> <<>>, processedFragments |-> processedFragments]
    ELSE FragmentLoop(page.sentences,
                      [errors |-> <<>>, processedFragments |-> processedFragments])

checkRegexPatterns(page, processedFragments) ==
    FragmentLoop(page.matches,
                 [errors |-> <<>>, processedFragments |-> processedFragments])

(***************************************************************************)
(* GrammarChecker.deduplicateErrors                                        *)
(***************************************************************************)
\* the key of deduplicateErrors without the rule identifier
DedupKeyContextOnly(error) == trim(error.context)

\* '${error.context.trim()}|${error.ruleId}': the rule identifier is one element
DedupKey(error) == trim(error.context) \o <<"|", error.ruleId>>

\* the loop of deduplicateErrors with uniqueErrors.unshift(error) in place of push
RECURSIVE DedupLoopUnshift(_, _, _)
DedupLoopUnshift(todo, seenContexts, uniqueErrors) ==
    IF todo = <<>> THEN uniqueErrors
    ELSE LET key == DedupKey(Head(todo))
         IN  IF key \notin seenContexts
             THEN DedupLoopUnshift(Tail(todo), seenContexts \cup {key},
                                   <<Head(todo)>> \o uniqueErrors)
             ELSE DedupLoopUnshift(Tail(todo), seenContexts, uniqueErrors)

RECURSIVE DedupLoop(_, _, _)
DedupLoop(todo, seenContexts, uniqueErrors) ==
    IF todo = <<>> THEN uniqueErrors
    ELSE LET key == DedupKey(Head(todo))
         IN  IF key \notin seenContexts
             THEN DedupLoop(Tail(todo), seenContexts \cup {key}, Append(uniqueErrors, Head(todo)))
             ELSE DedupLoop(Tail(todo), seenContexts, uniqueErrors)

deduplicateErrors(errors) == DedupLoop(errors, {}, <<>>)

vars == <<checkers, returned, merged, dedup, invocation>>

\* the number of GrammarChecker objects
NumCheckers == 2

\* the number of calls of checkPage, over all objects
MaxRuns == 2

\* the length of the list that deduplicateErrors is called with on its own
MaxErrors == 3

CheckerIds == 1..NumCheckers

\* a GrammarChecker that is not constructed
NoChecker == [constructed |-> FALSE]

\* an option that the caller leaves out
Undefined == "undefined"

LanguageInputs == {Undefined, "en-US"}

\* the caller's detectIncomplete: left out, true or false
DetectIncompleteInputs == {Undefined, "true", "false"}

\* disabledRules, an array of rule identifiers, as the set of its elements
DisabledRulesInputs == {{}, {"MISSING_END_PUNCTUATION", "HANGING_PREPOSITION"}}

\* the constructor with processedFragments taken from a set that the objects share
\* in place of 'new Set<string>()'
GrammarCheckerSharedFragments(language, disabledRules, detectIncomplete) ==
    [constructed |-> TRUE,
     options |-> [language |-> IF language = Undefined THEN "en-US" ELSE language,
                  disabledRules |-> disabledRules,
                  detectIncomplete |-> detectIncomplete # "false"],
     processedFragments |->
        UNION {checkers[c].processedFragments :
                 c \in {d \in DOMAIN checkers : checkers[d].constructed}}]

\* GrammarChecker.constructor
GrammarChecker(language, disabledRules, detectIncomplete) ==
    [constructed |-> TRUE,
     options |-> [language |-> IF language = Undefined THEN "en-US" ELSE language,
                  disabledRules |-> disabledRules,
                  detectIncomplete |-> detectIncomplete # "false"],
     processedFragments |-> {}]

\* checkPage with totalErrors taken before the errors of checkRegexPatterns are pushed
checkPageCountsBeforeRegex(checker, page) ==
    LET text == page.text
        nlp == detectIncompleteWithCompromise(checker.options, page, checker.processedFragments)
        regex == checkRegexPatterns(page, nlp.processedFragments)
        errors == nlp.errors \o regex.errors
        uniqueErrors == deduplicateErrors(errors)
    IN  [result |-> [url |-> page.url,
                     totalErrors |-> Len(nlp.errors),
                     errors |-> uniqueErrors,
                     rawText |-> text],
         errors |-> errors,
         processedFragments |-> regex.processedFragments]

\* GrammarChecker.checkPage: the CheckResult, the merged list 'errors' and the
\* object's processedFragments afterwards
checkPage(checker, page) ==
    LET text == page.text
        nlp == detectIncompleteWithCompromise(checker.options, page, checker.processedFragments)
        regex == checkRegexPatterns(page, nlp.processedFragments)
        errors == nlp.errors \o regex.errors
        uniqueErrors == deduplicateErrors(errors)
    IN  [result |-> [url |-> page.url,
                     totalErrors |-> Len(uniqueErrors),
                     errors |-> uniqueErrors,
                     rawText |-> text],
         errors |-> errors,
         processedFragments |-> regex.processedFragments]

RECURSIVE RunsUpTo(_)
RunsUpTo(n) == IF n = 0 THEN 0 ELSE Len(returned[n]) + RunsUpTo(n - 1)

\* the number of calls of checkPage so far
TotalRuns == RunsUpTo(NumCheckers)

NoDedupCall == [errors |-> <<>>, uniqueErrors |-> <<>>, done |-> FALSE]

\* no run of the command line
NoInvocation == [stage |-> "none"]

Init ==
    /\ checkers = [c \in CheckerIds |-> NoChecker]
    /\ returned = [c \in CheckerIds |-> <<>>]
    /\ merged = [c \in CheckerIds |-> <<>>]
    /\ dedup = NoDedupCall
    /\ invocation = NoInvocation

\* new GrammarChecker({language, disabledRules, detectIncomplete})
Construct(c) ==
    /\ ~checkers[c].constructed
    /\ \E language \in LanguageInputs :
       \E disabledRules \in DisabledRulesInputs :
       \E detectIncomplete \in DetectIncompleteInputs :
          checkers' = [checkers EXCEPT
                         ![c] = GrammarChecker(language, disabledRules, detectIncomplete)]
    /\ UNCHANGED <<returned, merged, dedup, invocation>>

\* await grammarChecker.checkPage(page)
CheckPage(c) ==
    /\ checkers[c].constructed
    /\ TotalRuns < MaxRuns
    /\ \E page \in AnalysedPages :
          LET run == checkPage(checkers[c], page)
          IN  /\ checkers' = [checkers EXCEPT
                                ![c].processedFragments = run.processedFragments]
              /\ returned' = [returned EXCEPT ![c] = Append(@, run.result)]
              /\ merged' = [merged EXCEPT ![c] = Append(@, run.errors)]
    /\ UNCHANGED <<dedup, invocation>>

Next == \E c \in CheckerIds : Construct(c) \/ CheckPage(c)

Spec == Init /\ [][Next]_vars

(***************************************************************************)
(* deduplicateErrors on its own: the list is any list of at most MaxErrors *)
(* errors that the two detectors push for the pages.                       *)
(***************************************************************************)
OutcomeErrors(outcomes) == UNION {Range(outcomes[k].errors) : k \in DOMAIN outcomes}

DetectorErrors ==
    UNION {OutcomeErrors(SentenceOutcomesOf[text]) \cup OutcomeErrors(MatchOutcomesOf[text]) :
             text \in PageTexts}

ErrorLists == UNION {[1..n -> DetectorErrors] : n \in 0..MaxErrors}

InitDedup ==
    /\ checkers = [c \in CheckerIds |-> NoChecker]
    /\ returned = [c \in CheckerIds |-> <<>>]
    /\ merged = [c \in CheckerIds |-> <<>>]
    /\ \E errors \in ErrorLists : dedup = [NoDedupCall EXCEPT !.errors = errors]
    /\ invocation = NoInvocation

\* this.deduplicateErrors(errors)
Deduplicate ==
    /\ ~dedup.done
    /\ dedup' = [dedup EXCEPT !.uniqueErrors = deduplicateErrors(dedup.errors),
                              !.done = TRUE]
    /\ UNCHANGED <<checkers, returned, merged, invocation>>

NextDedup == Deduplicate

SpecDedup == InitDedup /\ [][NextDedup]_vars

(***************************************************************************)
(* Properties.                                                             *)
(***************************************************************************)
\* the calls of checkPage that have returned: <<c, k>> is the k-th call on object c
Runs == {<<c, k>> \in CheckerIds \X (1..MaxRuns) : k <= Len(returned[c])}

ErrorsOf(run) == returned[run[1]][run[2]].errors

\* the first call on an object with the default options, for the page with text text
FreshDefaultRun(c, text) ==
    /\ checkers[c].constructed
    /\ checkers[c].options.detectIncomplete
    /\ checkers[c].options.disabledRules = {}
    /\ Len(returned[c]) >= 1
    /\ returned[c][1].rawText = text

\* the fragments that the detectors examine on the pages, and the headings among them
Fragments ==
    UNION {{SentenceOutcomesOf[text][k].fragment : k \in DOMAIN SentenceOutcomesOf[text]}
             \cup {MatchOutcomesOf[text][k].fragment : k \in DOMAIN MatchOutcomesOf[text]} :
           text \in PageTexts}

HeadingFragments == {fragment \in Fragments : isHeadingOrTitle(fragment)}

PatternRuleIds == {patterns[k].ruleId : k \in DOMAIN patterns}

PatternErrorsOf(errors) == SelectSeq(errors, LAMBDA error : error.ruleId \in PatternRuleIds)

\* C1: in every CheckResult that checkPage returns, totalErrors is the length of errors.
TotalErrorsIsLength ==
    \A run \in Runs :
        returned[run[1]][run[2]].totalErrors = Len(ErrorsOf(run))

\* a CheckResult with two errors has been returned
TotalErrorsWitness ==
    \E run \in Runs :
        /\ Len(ErrorsOf(run)) = 2
        /\ returned[run[1]][run[2]].totalErrors = 2

\* C2: the list that deduplicateErrors returns holds no two entries with the same
\* trimmed context and the same ruleId, and it has as many entries as there are
\* distinct pairs of trimmed context and ruleId in the list it was given.
DedupKeysDistinct ==
    dedup.done =>
        /\ \A i, j \in DOMAIN dedup.uniqueErrors :
              /\ trim(dedup.uniqueErrors[i].context) = trim(dedup.uniqueErrors[j].context)
              /\ dedup.uniqueErrors[i].ruleId = dedup.uniqueErrors[j].ruleId
              => i = j
        /\ Len(dedup.uniqueErrors) =
              Cardinality({<<trim(dedup.errors[i].context), dedup.errors[i].ruleId>> :
                             i \in DOMAIN dedup.errors})

\* deduplicateErrors has dropped a repeated entry and kept two entries that share
\* their context and differ in their ruleId
DedupWitness ==
    /\ dedup.done
    /\ Len(dedup.uniqueErrors) < Len(dedup.errors)
    /\ \E i, j \in DOMAIN dedup.uniqueErrors :
          /\ dedup.uniqueErrors[i].context = dedup.uniqueErrors[j].context
          /\ dedup.uniqueErrors[i].ruleId # dedup.uniqueErrors[j].ruleId

\* C3: within one call, no reported fragment contains a fragment that was reported
\* before it, or is contained in one.
ContainmentLaw ==
    \A run \in Runs :
        \A i, j \in DOMAIN ErrorsOf(run) :
            i < j => /\ ~includes(ErrorsOf(run)[j].context, ErrorsOf(run)[i].context)
                     /\ ~includes(ErrorsOf(run)[i].context, ErrorsOf(run)[j].context)

\* C4: no reported error carries a ruleId of the object's disabledRules.
DisabledRulesNeverReported ==
    \A run \in Runs :
        \A i \in DOMAIN ErrorsOf(run) :
            ErrorsOf(run)[i].ruleId \notin checkers[run[1]].options.disabledRules

\* C5: of two fresh objects that differ only in detectIncomplete and analyse the
\* same page, the one with detectIncomplete false reports no MISSING_END_PUNCTUATION
\* and both report the same errors of the pattern matcher, in the same order.
DetectIncompleteLeavesPatterns ==
    \A c1, c2 \in CheckerIds :
        /\ checkers[c1].constructed
        /\ checkers[c2].constructed
        /\ checkers[c1].options.detectIncomplete
        /\ ~checkers[c2].options.detectIncomplete
        /\ checkers[c1].options.disabledRules = checkers[c2].options.disabledRules
        /\ Len(returned[c1]) >= 1
        /\ Len(returned[c2]) >= 1
        /\ returned[c1][1].rawText = returned[c2][1].rawText
        => /\ \A i \in DOMAIN returned[c2][1].errors :
                 returned[c2][1].errors[i].ruleId # "MISSING_END_PUNCTUATION"
           /\ PatternErrorsOf(returned[c1][1].errors) = PatternErrorsOf(returned[c2][1].errors)

\* C6: every call of checkPage returns the errors that a freshly constructed object
\* with the same options returns for the page.
FreshFragmentsPerRun ==
    \A run \in Runs :
        ErrorsOf(run) =
            checkPage([checkers[run[1]] EXCEPT !.processedFragments = {}],
                      CHOOSE page \in AnalysedPages :
                          page.url = returned[run[1]][run[2]].url).result.errors

\* C7: two objects with the same options whose first call analyses the same text
\* return the same list of errors.
Determinism ==
    \A c1, c2 \in CheckerIds :
        /\ checkers[c1].constructed
        /\ checkers[c2].constructed
        /\ checkers[c1].options = checkers[c2].options
        /\ Len(returned[c1]) >= 1
        /\ Len(returned[c2]) >= 1
        /\ returned[c1][1].rawText = returned[c2][1].rawText
        => returned[c1][1].errors = returned[c2][1].errors

\* two objects with the same options have analysed the same text and reported errors
DeterminismWitness ==
    \E c1, c2 \in CheckerIds :
        /\ c1 # c2
        /\ checkers[c1].constructed
        /\ checkers[c2].constructed
        /\ checkers[c1].options = checkers[c2].options
        /\ Len(returned[c1]) >= 1
        /\ Len(returned[c2]) >= 1
        /\ returned[c1][1].rawText = returned[c2][1].rawText
        /\ returned[c1][1].errors # <<>>

\* C8: no reported error has a context that isHeadingOrTitle accepts.
HeadingExemption ==
    \A run \in Runs :
        \A i \in DOMAIN ErrorsOf(run) :
            /\ ErrorsOf(run)[i].context \in Fragments
            /\ ErrorsOf(run)[i].context \notin HeadingFragments

\* a page on which a pattern matches a heading has been analysed by an object with
\* detectIncomplete false, for which only the pattern matcher examines the heading
HeadingExemptionWitness ==
    \E run \in Runs :
        /\ ~checkers[run[1]].options.detectIncomplete
        /\ \E k \in DOMAIN MatchOutcomesOf[returned[run[1]][run[2]].rawText] :
              MatchOutcomesOf[returned[run[1]][run[2]].rawText][k].fragment \in HeadingFragments

\* C9: the first call on an object with the default options for the text of scenario 1
\* reports exactly one error, of rule HANGING_PREPOSITION or POSSIBLE_INCOMPLETE_SENTENCE,
\* whose context contains "to", and no error with the context "Contact Us".
Scenario1 ==
    \A c \in CheckerIds :
        FreshDefaultRun(c, Scenario1Text) =>
            /\ Len(returned[c][1].errors) = 1
            /\ \A i \in DOMAIN returned[c][1].errors :
                  /\ returned[c][1].errors[i].ruleId
                        \in {"HANGING_PREPOSITION", "POSSIBLE_INCOMPLETE_SENTENCE"}
                  /\ includes(returned[c][1].errors[i].context, <<"t", "o">>)
                  /\ returned[c][1].errors[i].context # ContactUs

\* C10: the first call on an object with the default options for the text of scenario 3
\* reports no error with the context "1. Introduction" and exactly one
\* MISSING_END_PUNCTUATION, whose context is the second paragraph.
Scenario3 ==
    \A c \in CheckerIds :
        FreshDefaultRun(c, Scenario3Text) =>
            LET errors == returned[c][1].errors
                missing == {i \in DOMAIN errors : errors[i].ruleId = "MISSING_END_PUNCTUATION"}
            IN  /\ \A i \in DOMAIN errors : errors[i].context # NumberedIntroduction
                /\ Cardinality(missing) = 1
                /\ \A i \in missing : errors[i].context = PolicyExplains

\* an object with the default options has analysed the text of scenario 3 first
Scenario3Witness == \E c \in CheckerIds : FreshDefaultRun(c, Scenario3Text)

(***************************************************************************)
(* The first call of checkPage on a fresh object, for texts of one or two  *)
(* paragraphs: sentences with and without a closing mark, blank texts, and *)
(* phrases of the user interface.                                          *)
(***************************************************************************)
UnitBodies ==
    { <<"W","e"," ","d","o"," ","i","t"," ","a"," ","l","o","t">>,
      <<"T","h","e","y"," ","a","r","e"," ","l","i","s","t","e","n","i","n","g">>,
      <<"W","e"," ","w","i","l","l"," ","c","a","l","l"," ","y","o","u"," ","b","a","c","k">>,
      <<"P","l","e","a","s","e"," ","f","i","n","d"," ","o","u","r"," ","l","a","t","e","s","t"," ","o","f","f","e","r","s"," ","a","n","d"," ","p","r","i","c","e","s"," ","h","e","r","e">>,
      <<"P","l","e","a","s","e"," ","s","e","t"," ","t","h","e"," ","m","a","r","g","i","n"," ","f","o","r"," ","e","a","c","h"," ","o","f"," ","o","u","r"," ","b","o","x","e","s">>,
      <<"T","h","e"," ","w","i","d","t","h"," ","i","s"," ","s","e","t"," ","b","y"," ","o","u","r"," ","t","e","a","m">>,
      <<"P","l","e","a","s","e"," ","s","e","n","d"," ","(","u","s",")"," ","[","o","n","e","]"," ","(","n","o","t","e",")"," ","a"," ","d","a","y"," ","<","n","o","w",">">>,
      <<"P","l","e","a","s","e"," ","v","i","s","i","t"," ","o","u","r"," ","s","i","t","e"," ","t","o">> }

UnitEndings ==
    { <<>>,
      <<".">>,
      <<"!">>,
      <<"?">>,
      <<":">>,
      <<" ",":",")">> }

BlankTexts ==
    { <<>>,
      <<" ">>,
      <<"\n","\n">>,
      <<" ","\n","\n"," ">> }

UiTexts ==
    { <<"T","e","r","m","s"," ","a","n","d"," ","C","o","n","d","i","t","i","o","n","s">>,
      <<"S","k","i","p"," ","t","o"," ","c","o","n","t","e","n","t">>,
      <<"T","e","r","m","s"," ","a","n","d"," ","c","o","n","d","i","t","i","o","n","s">>,
      <<"P","r","i","v","a","c","y"," ","P","o","l","i","c","y">> }

\* a sentence that the third pattern finds with the blank before it
TwoSentenceTexts ==
    { <<"W","e"," ","v","a","l","u","e"," ","p","r","i","v","a","c","y","."," ","O","u","r"," ","s","e","r","v","e","r","s"," ","i","g","n","o","r","e"," ","b","r","o","w","s","e","r","-","i","n","i","t","i","a","t","e","d">> }

\* a numbered heading and three paragraphs that stop short, the last two after a
\* complete sentence
ThreeOpenParagraphs == <<"1","."," ","I","n","t","r","o","d","u","c","t","i","o","n","\n","\n","Y","o","u"," ","m","a","y"," ","w","r","i","t","e"," ","t","o"," ","u","s"," ","o","r"," ","w","e"," ","c","a","l","l"," ","y","o","u"," ","f","o","r","\n","\n","T","h","a","n","k","s","."," ","P","l","e","a","s","e"," ","n","o","t","e"," ","t","h","a","t"," ","w","e"," ","c","a","n","n","o","t"," ","r","e","p","l","y"," ","t","o","\n","\n","T","h","a","n","k","s","."," ","W","e"," ","w","i","l","l"," ","c","a","l","l"," ","y","o","u"," ","b","a","c","k"," ","a","n","d"," ","t","a","l","k"," ","a","b","o","u","t">>

\* one open paragraph, twice
SameParagraphTwice == <<"W","e"," ","w","i","l","l"," ","c","a","l","l"," ","y","o","u"," ","b","a","c","k","\n","\n","W","e"," ","w","i","l","l"," ","c","a","l","l"," ","y","o","u"," ","b","a","c","k">>

FirstCallTexts ==
    {body \o ending : body \in UnitBodies, ending \in UnitEndings}
        \cup BlankTexts \cup UiTexts \cup TwoSentenceTexts
        \cup {ThreeOpenParagraphs, SameParagraphTwice}

AnalysedFirstCallPages ==
    {[url |-> "page",
      text |-> text,
      sentences |-> SentenceOutcomes(text),
      matches |-> MatchOutcomes(text)] : text \in FirstCallTexts}

\* await grammarChecker.checkPage(page), the first call on the first object
CheckFirstPage ==
    /\ checkers[1].constructed
    /\ returned[1] = <<>>
    /\ \E page \in AnalysedFirstCallPages :
          LET run == checkPage(checkers[1], page)
          IN  /\ checkers' = [checkers EXCEPT
                                ![1].processedFragments = run.processedFragments]
              /\ returned' = [returned EXCEPT ![1] = Append(@, run.result)]
              /\ merged' = [merged EXCEPT ![1] = Append(@, run.errors)]
    /\ UNCHANGED <<dedup, invocation>>

NextFirstCall == Construct(1) \/ CheckFirstPage

SpecFirstCall == Init /\ [][NextFirstCall]_vars

IsBlank(text) == \A k \in DOMAIN text : text[k] \in Space

\* C11: for an empty text and for a text of blanks and line breaks only, checkPage
\* returns a CheckResult with no errors and totalErrors 0.
BlankTextNoErrors ==
    \A run \in Runs :
        IsBlank(returned[run[1]][run[2]].rawText) =>
            /\ returned[run[1]][run[2]].errors = <<>>
            /\ returned[run[1]][run[2]].totalErrors = 0

\* both detectors have run on a text of blanks and line breaks that is not empty
BlankTextWitness ==
    \E run \in Runs :
        /\ checkers[run[1]].options.detectIncomplete
        /\ returned[run[1]][run[2]].rawText # <<>>
        /\ IsBlank(returned[run[1]][run[2]].rawText)
        /\ returned[run[1]][run[2]].totalErrors = 0

\* the entries of list up to the n-th that no earlier entry equals in trimmed
\* context and ruleId, in the order of list
RECURSIVE FirstDetected(_, _)
FirstDetected(list, n) ==
    IF n = 0 THEN <<>>
    ELSE IF \E j \in 1..(n - 1) :
               /\ trim(list[j].context) = trim(list[n].context)
               /\ list[j].ruleId = list[n].ruleId
         THEN FirstDetected(list, n - 1)
         ELSE Append(FirstDetected(list, n - 1), list[n])

\* the place of an error's detector in the order of detection: the completeness
\* detector, then the patterns in the order of their table
DetectionRank(error) ==
    IF error.ruleId = "MISSING_END_PUNCTUATION" THEN 0
    ELSE CHOOSE k \in DOMAIN patterns : patterns[k].ruleId = error.ruleId

\* C12: the errors that checkPage returns are the merged list of the call without
\* the entries that repeat an earlier entry's trimmed context and ruleId, in the
\* order of the merged list; the merged list holds the errors of the completeness
\* detector in the order of the sentences, then the errors of the patterns in the
\* order of the pattern table and, for one pattern, in the order of its matches.
DetectionOrderPreserved ==
    \A run \in Runs :
        LET list == merged[run[1]][run[2]]
        IN  /\ ErrorsOf(run) = FirstDetected(list, Len(list))
            /\ \A i, j \in DOMAIN list :
                  i < j =>
                     /\ DetectionRank(list[i]) <= DetectionRank(list[j])
                     /\ DetectionRank(list[i]) = DetectionRank(list[j])
                           => list[i].position.offset < list[j].position.offset

\* a call has returned the errors of the completeness detector for three sentences,
\* in the order of the sentences, followed by an error of a pattern
DetectionOrderWitness ==
    \E run \in Runs :
        LET errors == ErrorsOf(run)
        IN  /\ Len(errors) = 4
            /\ \A i \in 1..3 : errors[i].ruleId = "MISSING_END_PUNCTUATION"
            /\ errors[1].position.offset < errors[2].position.offset
            /\ errors[2].position.offset < errors[3].position.offset
            /\ errors[4].ruleId = "HANGING_PREPOSITION"

\* a call has returned the errors of two patterns, with two errors of the second
PatternOrderWitness ==
    \E run \in Runs :
        LET errors == ErrorsOf(run)
        IN  /\ Len(errors) = 3
            /\ errors[1].ruleId = "INCOMPLETE_TRANSITIVE_VERB"
            /\ errors[2].ruleId = "HANGING_PREPOSITION"
            /\ errors[3].ruleId = "HANGING_PREPOSITION"
            /\ errors[2].position.offset < errors[3].position.offset

\* C13: the context of every error that checkPage returns is not empty, has no
\* blank or line break at either end, and occurs in the text of the page.
ContextFromText ==
    \A run \in Runs :
        \A i \in DOMAIN ErrorsOf(run) :
            /\ ErrorsOf(run)[i].context # <<>>
            /\ trim(ErrorsOf(run)[i].context) = ErrorsOf(run)[i].context
            /\ includes(returned[run[1]][run[2]].rawText, ErrorsOf(run)[i].context)

\* a pattern has matched a paragraph together with the line break after it, and
\* the error carries the paragraph without the line break
ContextFromTextWitness ==
    \E run \in Runs :
        /\ returned[run[1]][run[2]].rawText = ThreeOpenParagraphs
        /\ \E i \in DOMAIN ErrorsOf(run) :
              /\ ErrorsOf(run)[i].ruleId = "INCOMPLETE_TRANSITIVE_VERB"
              /\ ErrorsOf(run)[i].position.length = Len(ErrorsOf(run)[i].context) + 1

(***************************************************************************)
(* The reports: one run of cli.ts, of index.ts as a program, or of a       *)
(* Reporter, from its arguments to the files it has written, the lines on  *)
(* console.error, the exit code and the rejection of the promise.  The     *)
(* browser and the file system are the environment: the browser starts and *)
(* loads the page or fails at either step, and a write succeeds or fails.  *)
(* The CheckResult that the report is made of does not decide whether a    *)
(* file is written, and is left out.                                       *)
(***************************************************************************)
UrlInputs == {Undefined, "https://example.com"}

\* --output-format: left out, the four formats, and a word that is no format
OutputFormatInputs == {Undefined, "console", "json", "html", "markdown", "xml"}

\* --output-path: left out, the empty string, and a path
OutputPathInputs == {Undefined, "", "reports/report"}

\* chromium.launch and page.goto
BrowserOutcomes == {"loads", "goto fails", "launch fails"}

\* mkdir and writeFile
WriteOutcomes == {"written", "write fails"}

EntryPoints == {"cli.ts", "index.ts", "Reporter"}

\* !outputPath
NoOutputPath(outputPath) == outputPath \in {Undefined, ""}

outputConsoleResults == [stderr |-> <<>>, files |-> {}]

outputJsonResults(outputPath, write) ==
    IF NoOutputPath(outputPath)
    THEN [stderr |-> <<"Error: Output path is required for JSON format">>, files |-> {}]
    ELSE IF write = "write fails"
    THEN [stderr |-> <<"Error saving JSON report:">>, files |-> {}]
    ELSE [stderr |-> <<>>, files |-> {[path |-> outputPath, format |-> "json"]}]

outputHtmlResults(outputPath, write) ==
    IF NoOutputPath(outputPath)
    THEN [stderr |-> <<"Error: Output path is required for HTML format">>, files |-> {}]
    ELSE IF write = "write fails"
    THEN [stderr |-> <<"Error saving HTML report:">>, files |-> {}]
    ELSE [stderr |-> <<>>, files |-> {[path |-> outputPath, format |-> "html"]}]

outputMarkdownResults(outputPath, write) ==
    IF NoOutputPath(outputPath)
    THEN [stderr |-> <<"Error: Output path is required for Markdown format">>, files |-> {}]
    ELSE IF write = "write fails"
    THEN [stderr |-> <<"Error saving Markdown report:">>, files |-> {}]
    ELSE [stderr |-> <<>>, files |-> {[path |-> outputPath, format |-> "markdown"]}]

\* outputResults without 'case markdown'
outputResultsWithoutMarkdown(format, outputPath, write) ==
    CASE format = "json" -> outputJsonResults(outputPath, write)
      [] format = "html" -> outputHtmlResults(outputPath, write)
      [] OTHER -> outputConsoleResults

outputResults(format, outputPath, write) ==
    CASE format = "json" -> outputJsonResults(outputPath, write)
      [] format = "html" -> outputHtmlResults(outputPath, write)
      [] format = "markdown" -> outputMarkdownResults(outputPath, write)
      [] OTHER -> outputConsoleResults

\* checkWebsiteGrammar: what it logs and writes, and whether its promise rejects
checkWebsiteGrammar(options, browser, write) ==
    LET outputFormat ==
            IF options.outputFormat = Undefined THEN "console" ELSE options.outputFormat
    IN  IF browser = "launch fails"
        THEN [stderr |-> <<>>, files |-> {}, rejected |-> TRUE]
        ELSE IF browser = "goto fails"
        THEN [stderr |-> <<"Error:">>, files |-> {}, rejected |-> FALSE]
        ELSE [stderr |-> outputResults(outputFormat, options.outputPath, write).stderr,
              files |-> outputResults(outputFormat, options.outputPath, write).files,
              rejected |-> FALSE]

\* main of cli.ts, after parseArgs; the exit code of the process as a string
main(options, browser, write) ==
    IF options.url = Undefined
    THEN [stderr |-> <<"Error: URL is required">>, files |-> {}, exitCode |-> "1"]
    ELSE IF /\ options.outputFormat # Undefined
            /\ options.outputFormat # "console"
            /\ NoOutputPath(options.outputPath)
    THEN [stderr |-> <<"Error: --output-path is required for output format">>,
          files |-> {}, exitCode |-> "1"]
    ELSE LET run == checkWebsiteGrammar(options, browser, write)
         IN  IF run.rejected
             THEN [stderr |-> run.stderr \o <<"Error:">>, files |-> run.files, exitCode |-> "1"]
             ELSE [stderr |-> run.stderr, files |-> run.files, exitCode |-> "0"]

\* index.ts run as a program
direct(options, browser, write) ==
    IF options.url = Undefined
    THEN [stderr |-> <<>>, files |-> {}, exitCode |-> "1"]
    ELSE LET run == checkWebsiteGrammar(options, browser, write)
         IN  IF run.rejected
             THEN [stderr |-> run.stderr \o <<"Fatal error:">>, files |-> run.files,
                   exitCode |-> "1"]
             ELSE [stderr |-> run.stderr, files |-> run.files, exitCode |-> "0"]

\* Reporter.constructor
Reporter(options) ==
    [outputFormat |-> IF options.outputFormat = Undefined THEN "console"
                      ELSE options.outputFormat,
     outputPath |-> options.outputPath]

\* generateJsonReport, generateHtmlReport and generateMarkdownReport
generateFileReport(format, options, write) ==
    IF NoOutputPath(options.outputPath) THEN [files |-> {}, rejected |-> TRUE]
    ELSE IF write = "write fails" THEN [files |-> {}, rejected |-> TRUE]
    ELSE [files |-> {[path |-> options.outputPath, format |-> format]}, rejected |-> FALSE]

\* Reporter.generateReport
generateReport(options, write) ==
    IF options.outputFormat \in {"json", "html", "markdown"}
    THEN generateFileReport(options.outputFormat, options, write)
    ELSE [files |-> {}, rejected |-> FALSE]

InitReport ==
    /\ checkers = [c \in CheckerIds |-> NoChecker]
    /\ returned = [c \in CheckerIds |-> <<>>]
    /\ merged = [c \in CheckerIds |-> <<>>]
    /\ dedup = NoDedupCall
    /\ \E entry \in EntryPoints :
       \E url \in UrlInputs :
       \E outputFormat \in OutputFormatInputs :
       \E outputPath \in OutputPathInputs :
       \E browser \in BrowserOutcomes :
       \E write \in WriteOutcomes :
          invocation = [stage |-> "start",
                        entry |-> entry,
                        options |-> [url |-> url,
                                     outputFormat |-> outputFormat,
                                     outputPath |-> outputPath],
                        browser |-> browser,
                        write |-> write,
                        stderr |-> <<>>,
                        files |-> {},
                        exitCode |-> Undefined,
                        rejected |-> FALSE]

\* npx ts-node src/cli.ts <url> [options]
RunCli ==
    /\ invocation.stage = "start"
    /\ invocation.entry = "cli.ts"
    /\ LET run == main(invocation.options, invocation.browser, invocation.write)
       IN  invocation' = [invocation EXCEPT !.stage = "done",
                                            !.stderr = run.stderr,
                                            !.files = run.files,
                                            !.exitCode = run.exitCode]
    /\ UNCHANGED <<checkers, returned, merged, dedup>>

\* npx ts-node src/index.ts <url> [options]
RunIndex ==
    /\ invocation.stage = "start"
    /\ invocation.entry = "index.ts"
    /\ LET run == direct(invocation.options, invocation.browser, invocation.write)
       IN  invocation' = [invocation EXCEPT !.stage = "done",
                                            !.stderr = run.stderr,
                                            !.files = run.files,
                                            !.exitCode = run.exitCode]
    /\ UNCHANGED <<checkers, returned, merged, dedup>>

\* new Reporter(options)
NewReporter ==
    /\ invocation.stage = "start"
    /\ invocation.entry = "Reporter"
    /\ invocation' = [invocation EXCEPT !.stage = "constructed",
                                        !.options = Reporter(invocation.options)]
    /\ UNCHANGED <<checkers, returned, merged, dedup>>

\* await reporter.generateReport(result)
GenerateReport ==
    /\ invocation.stage = "constructed"
    /\ LET run == generateReport(invocation.options, invocation.write)
       IN  invocation' = [invocation EXCEPT !.stage = "done",
                                            !.files = run.files,
                                            !.rejected = run.rejected]
    /\ UNCHANGED <<checkers, returned, merged, dedup>>

NextReport == RunCli \/ RunIndex \/ NewReporter \/ GenerateReport

SpecReport == InitReport /\ [][NextReport]_vars

\* the format and the path that the run was started with
FileFormatWithoutPath ==
    /\ invocation.stage = "done"
    /\ invocation.options.outputFormat \in {"json", "html", "markdown"}
    /\ NoOutputPath(invocation.options.outputPath)

\* C14: a run of cli.ts, of index.ts or of Reporter.generateReport with the format
\* json, html or markdown and without an output path writes no file and reports an
\* error: a line on console.error, the exit code 1, or a rejected promise.
OutputPathRequired ==
    FileFormatWithoutPath =>
        /\ invocation.files = {}
        /\ \/ invocation.stderr # <<>>
           \/ invocation.exitCode = "1"
           \/ invocation.rejected

\* index.ts has loaded the page and was given the format markdown and no path: it
\* has logged the error and ended with the exit code 0
OutputPathRequiredWitness ==
    /\ FileFormatWithoutPath
    /\ invocation.entry = "index.ts"
    /\ invocation.options.outputFormat = "markdown"
    /\ invocation.browser = "loads"
    /\ invocation.stderr = <<"Error: Output path is required for Markdown format">>
    /\ invocation.exitCode = "0"
    /\ invocation.files = {}

\* a unit of the text that passes the checks before the content test: at least
\* MinSentenceLength characters, not skipped as noise, no heading
SurvivingUnits(text) ==
    {unit \in {trim(sentences(text)[k]) : k \in DOMAIN sentences(text)} :
        /\ Len(unit) >= MinSentenceLength
        /\ ~shouldSkipText(unit)
        /\ ~isHeadingOrTitle(unit)}

\* the condition of the claim C15 on a unit
LacksEndAndLooksLikeContent(unit) ==
    /\ unit[Len(unit)] \notin Terminator
    /\ unit[Len(unit)] # ":"
    /\ Len(unit) >= MinContentLength
    /\ Len(Words(unit)) >= MinContentWords
    /\ \/ hasSubjectVerb(unit)
       \/ /\ Len(Words(unit)) >= MinPlainWords
          /\ Cardinality({k \in DOMAIN unit : unit[k] \in SpecialChars}) * DensityDivisor
                < Len(unit)
          /\ \A w \in codeWords : ~includes(toLowerCase(unit), w)

\* C15: on the first call of an object with detectIncomplete, a unit that passes the
\* noise checks is reported as MISSING_END_PUNCTUATION exactly when it does not end
\* in '.', '!' or '?', does not end in a colon, has at least 15 characters and 4
\* words, and holds a subject before an auxiliary or has at least 7 words, fewer
\* than 5% special characters and no code vocabulary; the error has one suggestion.
MissingEndPunctuationExactly ==
    \A run \in Runs :
        /\ run[2] = 1
        /\ checkers[run[1]].options.detectIncomplete
        => \A unit \in SurvivingUnits(returned[run[1]][1].rawText) :
              /\ LacksEndAndLooksLikeContent(unit)
                    <=> \E i \in DOMAIN ErrorsOf(run) :
                           /\ ErrorsOf(run)[i].ruleId = "MISSING_END_PUNCTUATION"
                           /\ ErrorsOf(run)[i].context = unit
              /\ \A i \in DOMAIN ErrorsOf(run) :
                    ErrorsOf(run)[i].ruleId = "MISSING_END_PUNCTUATION"
                       => Len(ErrorsOf(run)[i].suggestions) = 1

VisitOurSiteTo == <<"P","l","e","a","s","e"," ","v","i","s","i","t"," ","o","u","r"," ","s","i","t","e"," ","t","o">>

\* the unit is matched from its first to its last character by a pattern of the table
MatchesIncompletePattern(unit) ==
    \E k \in DOMAIN patterns :
        \E i \in 0..Len(unit) :
            exec(patterns[k], unit, i) # NoMatch /\ exec(patterns[k], unit, i).last = Len(unit)

\* a unit that passes the noise checks, does not end in '.', '!' or '?' and fails
\* the content test
OpenUnitsFailingContent(text) ==
    {unit \in SurvivingUnits(text) :
        /\ unit[Len(unit)] \notin Terminator
        /\ ~isContentSentence(unit)}

NoteWeCannotReplyTo == <<"P","l","e","a","s","e"," ","n","o","t","e"," ","t","h","a","t"," ","w","e"," ","c","a","n","n","o","t"," ","r","e","p","l","y"," ","t","o">>

\* C17: in the merged list of a call, no sentence of the text is the context of
\* more than one error: a sentence that is reported as MISSING_END_PUNCTUATION is
\* reported under no other rule.
OneErrorPerUnit ==
    \A run \in Runs :
        LET list == merged[run[1]][run[2]]
        IN  \A k \in DOMAIN sentences(returned[run[1]][run[2]].rawText) :
               Cardinality({i \in DOMAIN list :
                              list[i].context =
                                 trim(sentences(returned[run[1]][run[2]].rawText)[k])}) <= 1

\* a sentence that the first pattern matches as well has been reported once, as
\* MISSING_END_PUNCTUATION
OneErrorPerUnitWitness ==
    \E run \in Runs :
        LET list == merged[run[1]][run[2]]
        IN  /\ returned[run[1]][run[2]].rawText = ThreeOpenParagraphs
            /\ MatchesIncompletePattern(NoteWeCannotReplyTo)
            /\ \E i \in DOMAIN list :
                  /\ list[i].context = NoteWeCannotReplyTo
                  /\ list[i].ruleId = "MISSING_END_PUNCTUATION"
            /\ Cardinality({i \in DOMAIN list : list[i].context = NoteWeCannotReplyTo}) = 1

\* C18: no error of a pattern has a context that is a phrase of the user interface
\* (uiPatterns of shouldSkipText), whatever detectIncomplete is.
UiPhraseNeverMatched ==
    \A run \in Runs :
        \A i \in DOMAIN ErrorsOf(run) :
            ErrorsOf(run)[i].ruleId \in PatternRuleIds
               => ~uiPatterns(trim(ErrorsOf(run)[i].context))

(***************************************************************************)
(* Calls of checkPage on one object, one after the other, for texts whose  *)
(* sentences are matched by the patterns as well.                          *)
(***************************************************************************)
\* a text that is no heading for isHeadingOrTitle, has the shape of a heading for
\* isPrepositionInHeading, and is matched by the second and the third pattern
ResponseToRequests == <<"T","h","e"," ","R","e","s","p","o","n","s","e"," ","t","o"," ","R","e","q","u","e","s","t","s"," ","w","h","i","c","h"," ","a","r","e"," ","b","r","o","w","s","e","r","-","i","n","i","t","i","a","t","e","d">>

AnalysedRepeatPages ==
    {[url |-> "page",
      text |-> text,
      sentences |-> SentenceOutcomes(text),
      matches |-> MatchOutcomes(text)] :
        text \in {VisitOurSiteTo, ResponseToRequests, ThreeOpenParagraphs,
                  Scenario1Text, Scenario3Text}}

\* await grammarChecker.checkPage(page), again on the first object
CheckPageAgain ==
    /\ checkers[1].constructed
    /\ Len(returned[1]) < MaxRuns
    /\ \E page \in AnalysedRepeatPages :
          LET run == checkPage(checkers[1], page)
          IN  /\ checkers' = [checkers EXCEPT
                                ![1].processedFragments = run.processedFragments]
              /\ returned' = [returned EXCEPT ![1] = Append(@, run.result)]
              /\ merged' = [merged EXCEPT ![1] = Append(@, run.errors)]
    /\ UNCHANGED <<dedup, invocation>>

NextRepeat == Construct(1) \/ CheckPageAgain

SpecRepeat == Init /\ [][NextRepeat]_vars

\* the trimmed sentences of at least MinSentenceLength characters of a text
LongSentences(text) ==
    {unit \in {trim(sentences(text)[k]) : k \in DOMAIN sentences(text)} :
        Len(unit) >= MinSentenceLength}

\* C19: after any number of calls on an object, processedFragments holds every
\* sentence of at least 10 characters that the completeness detector has met and
\* every trimmed match of a pattern, reported or not; no error of a pattern has a
\* sentence of its text as context when the completeness detector ran; and a match
\* that one pattern rejected is reported under no pattern of the same call.
ProcessedBeforeChecks ==
    \A run \in Runs :
        LET text == returned[run[1]][run[2]].rawText
            matches == MatchOutcomes(text)
            processedFragments == checkers[run[1]].processedFragments
        IN  /\ checkers[run[1]].options.detectIncomplete
                  => /\ LongSentences(text) \subseteq processedFragments
                     /\ \A i \in DOMAIN ErrorsOf(run) :
                           ErrorsOf(run)[i].ruleId \in PatternRuleIds
                              => ErrorsOf(run)[i].context \notin LongSentences(text)
            /\ \A j \in DOMAIN matches : matches[j].fragment \in processedFragments
            /\ \A j \in DOMAIN matches :
                  /\ matches[j].errors = <<>>
                  /\ \A k \in 1..(j - 1) : matches[k].fragment # matches[j].fragment
                  => \A i \in DOMAIN ErrorsOf(run) :
                        ErrorsOf(run)[i].ruleId \in PatternRuleIds
                           => ErrorsOf(run)[i].context # matches[j].fragment

\* two calls on an object with detectIncomplete false: the first for a text that
\* the second pattern matches and rejects and the third pattern matches as well,
\* reported under neither; its fragment is still in processedFragments after the
\* second call
ProcessedBeforeChecksWitness ==
    /\ checkers[1].constructed
    /\ ~checkers[1].options.detectIncomplete
    /\ Len(returned[1]) = 2
    /\ returned[1][1].rawText = ResponseToRequests
    /\ returned[1][2].rawText # ResponseToRequests
    /\ returned[1][1].errors = <<>>
    /\ Len(MatchOutcomes(ResponseToRequests)) = 2
    /\ ResponseToRequests \in checkers[1].processedFragments

\* C20: on the first call of an object, no two errors of the merged list have the
\* same trimmed context, and the errors that checkPage returns are the merged list.
FreshMergedListDistinct ==
    \A run \in Runs :
        run[2] = 1 =>
            LET list == merged[run[1]][1]
            IN  /\ \A i, j \in DOMAIN list :
                      trim(list[i].context) = trim(list[j].context) => i = j
                /\ ErrorsOf(run) = list

\* the first call of the default object for a text that holds one open paragraph
\* twice: the merged list holds one error, and deduplicateErrors returned it
FreshMergedListWitness ==
    \E run \in Runs :
        /\ run[2] = 1
        /\ checkers[run[1]].options.detectIncomplete
        /\ returned[run[1]][1].rawText = SameParagraphTwice
        /\ Len(sentences(SameParagraphTwice)) = 2
        /\ Len(merged[run[1]][1]) = 1
        /\ ErrorsOf(run) = merged[run[1]][1]

(***************************************************************************)
(* checkWebsiteGrammar step by step: the function is suspended at every    *)
(* await, and each action below is the settling of the awaited promise     *)
(* together with the code that runs until the next await.  newContext,     *)
(* newPage and goto are one step: they fail alike.  browser.close() is     *)
(* taken to resolve, as Playwright's does for a browser it started.        *)
(***************************************************************************)
InitBrowser ==
    /\ checkers = [c \in CheckerIds |-> NoChecker]
    /\ returned = [c \in CheckerIds |-> <<>>]
    /\ merged = [c \in CheckerIds |-> <<>>]
    /\ dedup = NoDedupCall
    /\ \E outputFormat \in OutputFormatInputs :
       \E outputPath \in OutputPathInputs :
       \E detectIncomplete \in DetectIncompleteInputs :
          invocation = [stage |-> "start",
                        entry |-> "checkWebsiteGrammar",
                        options |-> [outputFormat |-> outputFormat,
                                     outputPath |-> outputPath,
                                     detectIncomplete |-> detectIncomplete],
                        browser |-> "none",
                        failure |-> "none",
                        stderr |-> <<>>,
                        files |-> {},
                        reported |-> <<>>,
                        rejected |-> FALSE]

\* const browser = await chromium.launch({ headless }), outside the try
LaunchBrowser ==
    /\ invocation.stage = "start"
    /\ \/ invocation' = [invocation EXCEPT !.stage = "launched", !.browser = "open"]
       \/ invocation' = [invocation EXCEPT !.stage = "settled", !.failure = "launch",
                                           !.rejected = TRUE]
    /\ UNCHANGED <<checkers, returned, merged, dedup>>

\* browser.newContext(), context.newPage(), page.goto(url) and, when they
\* resolve, new GrammarChecker({...}) and the call of checkPage
NavigateToPage ==
    /\ invocation.stage = "launched"
    /\ \/ /\ invocation' = [invocation EXCEPT !.stage = "loaded"]
          /\ checkers' = [checkers EXCEPT
                            ![1] = GrammarChecker(Undefined, {},
                                                  invocation.options.detectIncomplete)]
       \/ /\ invocation' = [invocation EXCEPT !.stage = "failed", !.failure = "navigation"]
          /\ UNCHANGED checkers
    /\ UNCHANGED <<returned, merged, dedup>>

\* const result = await grammarChecker.checkPage(page): extractText rejects, or
\* checkPage returns the CheckResult
AnalysePage ==
    /\ invocation.stage = "loaded"
    /\ \/ /\ \E page \in AnalysedRepeatPages :
                LET run == checkPage(checkers[1], page)
                IN  /\ checkers' = [checkers EXCEPT
                                      ![1].processedFragments = run.processedFragments]
                    /\ returned' = [returned EXCEPT ![1] = Append(@, run.result)]
                    /\ merged' = [merged EXCEPT ![1] = Append(@, run.errors)]
          /\ invocation' = [invocation EXCEPT !.stage = "checked"]
       \/ /\ invocation' = [invocation EXCEPT !.stage = "failed", !.failure = "analysis"]
          /\ UNCHANGED <<checkers, returned, merged>>
    /\ UNCHANGED dedup

\* outputResults(result, outputFormat, outputPath, includeRawText), with the report
\* written or the write failing and logged by the output function itself
OutputResults ==
    /\ invocation.stage = "checked"
    /\ \E write \in WriteOutcomes :
          LET outputFormat == IF invocation.options.outputFormat = Undefined
                              THEN "console" ELSE invocation.options.outputFormat
              out == outputResults(outputFormat, invocation.options.outputPath, write)
          IN  invocation' = [invocation EXCEPT
                               !.stage = "output",
                               !.failure = IF write = "write fails" /\ out.stderr # <<>>
                                           THEN "output" ELSE "none",
                               !.stderr = out.stderr,
                               !.files = out.files,
                               !.reported = <<returned[1][Len(returned[1])]>>]
    /\ UNCHANGED <<checkers, returned, merged, dedup>>

\* catch (error) without the finally block: the promise rejects with the error
CatchErrorRethrows ==
    /\ invocation.stage = "failed"
    /\ invocation' = [invocation EXCEPT !.stage = "settled", !.rejected = TRUE]
    /\ UNCHANGED <<checkers, returned, merged, dedup>>

\* catch (error) { console.error('Error:', error); }
CatchError ==
    /\ invocation.stage = "failed"
    /\ invocation' = [invocation EXCEPT !.stage = "caught",
                                        !.stderr = Append(@, "Error:")]
    /\ UNCHANGED <<checkers, returned, merged, dedup>>

\* finally { await browser.close(); }
CloseBrowser ==
    /\ invocation.stage \in {"output", "caught"}
    /\ invocation' = [invocation EXCEPT !.stage = "settled", !.browser = "closed"]
    /\ UNCHANGED <<checkers, returned, merged, dedup>>

NextBrowser ==
    \/ LaunchBrowser
    \/ NavigateToPage
    \/ AnalysePage
    \/ OutputResults
    \/ CatchError
    \/ CloseBrowser

\* every awaited promise settles (Playwright bounds launch, navigation and
\* evaluation by timeouts) and the event loop then runs the continuation
SpecBrowser == InitBrowser /\ [][NextBrowser]_vars /\ WF_vars(NextBrowser)

\* what holds in every state of a run of checkWebsiteGrammar
BrowserRunInvariant ==
    /\ invocation.reported # <<>> \/ invocation.files # {}
          => /\ Len(returned[1]) = 1
             /\ invocation.reported = <<returned[1][1]>>
    /\ invocation.browser # "none" => ~invocation.rejected
    /\ invocation.stage = "settled" =>
          /\ invocation.browser # "open"
          /\ invocation.failure \in {"navigation", "analysis", "output"}
                => invocation.stderr # <<>>

====
